---- MODULE Spec2Model ----
(***************************************************************************)
(* Model of Python_Code/app.py: an in-memory item store (ITEMS) guarded by *)
(* one lock (STORE_LOCK), persisted to DATA_FILE by save_data, and the     *)
(* query pipeline apply_filters -> apply_sort -> apply_pagination ->       *)
(* project_fields that every read route runs on a private copy.            *)
(*                                                                         *)
(* Python strings are sequences of one-character strings, so that lower(), *)
(* split(","), strip(), int() and float() are computed character by        *)
(* character.  JSON numbers are integers counting hundredths.              *)
(***************************************************************************)
EXTENDS Integers, Sequences, FiniteSets, TLC

(***************************************************************************)
(* Characters and strings                                                  *)
(***************************************************************************)

\* The characters the model uses, in code-point order.
CharTable ==
  << " ", "+", ",", "-", ".",
     "0", "1", "2", "3", "4", "5", "6", "7", "8", "9",
     "A", "B", "C", "D", "E", "F", "G", "H", "I", "J", "K", "L", "M",
     "N", "O", "P", "Q", "R", "S", "T", "U", "V", "W", "X", "Y", "Z",
     "_",
     "a", "b", "c", "d", "e", "f", "g", "h", "i", "j", "k", "l", "m",
     "n", "o", "p", "q", "r", "s", "t", "u", "v", "w", "x", "y", "z" >>

\* ord(c), as the rank of c in code-point order.
Ord(c) == CHOOSE i \in 1..Len(CharTable) : CharTable[i] = c

\* str.lower() on each character: an upper-case letter moves to the
\* lower-case one, any other character stays.
LowerOf ==
  [c \in {CharTable[i] : i \in 1..Len(CharTable)} |->
     IF c \in {CharTable[i] : i \in Ord("A")..Ord("Z")}
     THEN CharTable[Ord(c) + (Ord("a") - Ord("A"))]
     ELSE c]

\* str.lower()
Lower(s) == [i \in 1..Len(s) |-> LowerOf[s[i]]]

\* Python's < on two str values: lexicographic by code point.
RECURSIVE StrLess(_, _)
StrLess(a, b) ==
  IF b = <<>> THEN FALSE
  ELSE IF a = <<>> THEN TRUE
  ELSE IF a[1] # b[1] THEN Ord(a[1]) < Ord(b[1])
  ELSE StrLess(Tail(a), Tail(b))

\* Python's `sub in s` on two str values.
Contains(s, sub) ==
  \E i \in 1..(Len(s) + 1) :
    /\ i + Len(sub) - 1 <= Len(s)
    /\ SubSeq(s, i, i + Len(sub) - 1) = sub

\* str.startswith on a one-character prefix.
StartsWith(s, c) == Len(s) > 0 /\ s[1] = c

\* str.strip(): drop leading and trailing blanks.
RECURSIVE LStrip(_)
LStrip(s) == IF s # <<>> /\ s[1] = " " THEN LStrip(Tail(s)) ELSE s

RECURSIVE RStrip(_)
RStrip(s) ==
  IF s # <<>> /\ s[Len(s)] = " " THEN RStrip(SubSeq(s, 1, Len(s) - 1)) ELSE s

Strip(s) == RStrip(LStrip(s))

\* str.split(","): the pieces between commas, empty pieces kept.
RECURSIVE SplitFrom(_, _)
SplitFrom(s, cur) ==
  IF s = <<>> THEN <<cur>>
  ELSE IF s[1] = "," THEN <<cur>> \o SplitFrom(Tail(s), <<>>)
  ELSE SplitFrom(Tail(s), Append(cur, s[1]))

SplitComma(s) == SplitFrom(s, <<>>)

(***************************************************************************)
(* Python values                                                           *)
(***************************************************************************)

\* Every value has the same four fields so that any two can be compared:
\* t is the type, n the number (hundredths), s the text, l the list items.
None == [t |-> "none", n |-> 0, s |-> <<>>, l |-> <<>>]

Str(s) == [t |-> "str", n |-> 0, s |-> s, l |-> <<>>]

Num(n) == [t |-> "num", n |-> n, s |-> <<>>, l |-> <<>>]

\* float("inf") and float("-inf"): n is the sign.
PosInf == [t |-> "inf", n |-> 1, s |-> <<>>, l |-> <<>>]

NegInf == [t |-> "inf", n |-> -1, s |-> <<>>, l |-> <<>>]

\* float("nan")
NaN == [t |-> "nan", n |-> 0, s |-> <<>>, l |-> <<>>]

\* A list of strings (the tags field).
List(l) == [t |-> "list", n |-> 0, s |-> <<>>, l |-> l]

\* A dict whose content the code never reads (the attributes field).
Map == [t |-> "map", n |-> 0, s |-> <<>>, l |-> <<>>]

\* isinstance(v, (int, float))
IsNumber(v) == v.t \in {"num", "inf", "nan"}

\* Python truthiness, as used by `if v:` and `v or default`.
Truthy(v) ==
  CASE v.t = "none" -> FALSE
    [] v.t = "str"  -> v.s # <<>>
    [] v.t = "num"  -> v.n # 0
    [] v.t = "list" -> v.l # <<>>
    [] OTHER        -> TRUE

\* a <= b on two numbers; any comparison with nan is false.
NumLeq(a, b) ==
  CASE a.t = "nan" \/ b.t = "nan" -> FALSE
    [] a.t = "inf" /\ b.t = "inf" -> a.n <= b.n
    [] a.t = "inf"                -> a.n < 0
    [] b.t = "inf"                -> b.n > 0
    [] OTHER                      -> a.n <= b.n

\* a < b on two numbers.
NumLess(a, b) == NumLeq(a, b) /\ a # b

\* Unary minus on a number.
Neg(v) == IF v.t = "nan" THEN v ELSE [v EXCEPT !.n = 0 - v.n]

(***************************************************************************)
(* int() and float() on a string                                           *)
(***************************************************************************)

\* s is one or more of the digits 0-9.
IsDigits(s) ==
  s # <<>> /\ \A i \in 1..Len(s) : s[i] \in {CharTable[d] : d \in Ord("0")..Ord("9")}

RECURSIVE DigitsVal(_)
DigitsVal(s) ==
  IF s = <<>> THEN 0 ELSE 10 * DigitsVal(SubSeq(s, 1, Len(s) - 1)) + (Ord(s[Len(s)]) - Ord("0"))

\* The text after an optional sign.
Unsigned(s) == IF StartsWith(s, "-") \/ StartsWith(s, "+") THEN Tail(s) ELSE s

\* Whether int(s) succeeds: blanks around, an optional sign, then digits.
IntOk(s) == IsDigits(Unsigned(Strip(s)))

\* int(s) when IntOk(s).
IntVal(s) ==
  IF StartsWith(Strip(s), "-")
  THEN 0 - DigitsVal(Unsigned(Strip(s)))
  ELSE DigitsVal(Unsigned(Strip(s)))

\* Position of the first "." in s, or 0.
DotAt(s) ==
  IF \E i \in 1..Len(s) : s[i] = "."
  THEN CHOOSE i \in 1..Len(s) : s[i] = "." /\ \A j \in 1..(i - 1) : s[j] # "."
  ELSE 0

\* The text before the "." at position d (all of it when d = 0).
IntPart(u, d) == IF d = 0 THEN u ELSE SubSeq(u, 1, d - 1)

\* The text after the "." at position d.
FracPart(u, d) == IF d = 0 THEN <<>> ELSE SubSeq(u, d + 1, Len(u))

\* Whether integer part ip and fraction fp make a decimal literal of at
\* most two decimals (the model's numbers count hundredths): "digits",
\* "digits.", ".digits" or "digits.digits".
PartsOk(ip, fp) ==
  /\ ip = <<>> \/ IsDigits(ip)
  /\ fp = <<>> \/ (IsDigits(fp) /\ Len(fp) <= 2)
  /\ ip # <<>> \/ fp # <<>>

\* The value of such a literal, in hundredths.
PartsVal(ip, fp) ==
  100 * DigitsVal(ip) + (IF Len(fp) = 1 THEN 10 * DigitsVal(fp) ELSE DigitsVal(fp))

DecimalOk(u) == PartsOk(IntPart(u, DotAt(u)), FracPart(u, DotAt(u)))

DecimalVal(u) == PartsVal(IntPart(u, DotAt(u)), FracPart(u, DotAt(u)))

\* float() on the stripped text t, u being t unsigned and lower-cased.
FloatOfParts(neg, u) ==
  IF u = <<"n", "a", "n">> THEN NaN
  ELSE IF u = <<"i", "n", "f">> THEN (IF neg THEN NegInf ELSE PosInf)
  ELSE IF DecimalOk(u) THEN Num(IF neg THEN 0 - DecimalVal(u) ELSE DecimalVal(u))
  ELSE None

\* float(s) on a string: a number, inf, nan, or None for ValueError.
FloatOfStr(s) == FloatOfParts(StartsWith(Strip(s), "-"), Lower(Unsigned(Strip(s))))

\* coerce_number(v): float(v), or None on TypeError / ValueError.
coerce_number(v) ==
  CASE v.t = "str" -> FloatOfStr(v.s)
    [] IsNumber(v) -> v
    [] OTHER       -> None

(***************************************************************************)
(* Items: dicts from field name to value                                   *)
(***************************************************************************)

F_id == <<"i", "d">>

F_name == <<"n", "a", "m", "e">>

F_category == <<"c", "a", "t", "e", "g", "o", "r", "y">>

F_price == <<"p", "r", "i", "c", "e">>

F_rating == <<"r", "a", "t", "i", "n", "g">>

F_tags == <<"t", "a", "g", "s">>

F_created_at == <<"c", "r", "e", "a", "t", "e", "d", "_", "a", "t">>

F_stock == <<"s", "t", "o", "c", "k">>

F_vendor == <<"v", "e", "n", "d", "o", "r">>

F_attributes == <<"a", "t", "t", "r", "i", "b", "u", "t", "e", "s">>

ITEM_FIELDS ==
  { F_id, F_name, F_category, F_price, F_rating, F_tags,
    F_created_at, F_stock, F_vendor, F_attributes }

\* dict.get(k): the value, or None when the key is absent.
Get(d, k) == IF k \in DOMAIN d THEN d[k] ELSE None

\* dict.get(k, default)
GetOr(d, k, default) == IF k \in DOMAIN d THEN d[k] ELSE default

\* `x in lst` on a list of strings.
InList(x, lst) == \E i \in 1..Len(lst) : lst[i] = x

\* set(lst)
SetOf(lst) == {lst[i] : i \in 1..Len(lst)}

(***************************************************************************)
(* Projection                                                              *)
(***************************************************************************)

\* parse_fields_param(raw): None for an absent or empty parameter, else the
\* stripped, non-empty, allowed names in the order given.  The list is
\* empty when no name is allowed.
StripAll(pieces) == [i \in 1..Len(pieces) |-> Strip(pieces[i])]

parse_fields_param(raw) ==
  IF ~Truthy(raw) THEN None
  ELSE List(SelectSeq(StripAll(SplitComma(raw.s)),
                      LAMBDA f : f # <<>> /\ f \in ITEM_FIELDS))

\* project_fields(item, fields): the item itself when fields is None or
\* empty, else the item restricted to the keys in fields.
project_fields(item, fields) ==
  IF ~Truthy(fields) THEN item
  ELSE [k \in {k \in DOMAIN item : InList(k, fields.l)} |-> item[k]]

(***************************************************************************)
(* Sorting                                                                 *)
(***************************************************************************)

\* _negate_if_number(x)
negate_if_number(x) == IF IsNumber(x) THEN Neg(x) ELSE x

\* One part of the key: the field's value, lower-cased when a string,
\* replaced by +inf (ascending) or -inf (descending) when None, and passed
\* through _negate_if_number when descending.
LowerIfStr(val) == IF val.t = "str" THEN Str(Lower(val.s)) ELSE val

SentinelIfNone(val, asc) == IF val = None THEN (IF asc THEN PosInf ELSE NegInf) ELSE val

Directed(val, asc) == IF asc THEN val ELSE negate_if_number(val)

KeyPart(it, fname, asc) ==
  Directed(SentinelIfNone(LowerIfStr(Get(it, fname)), asc), asc)

\* key_fn(it) of multi_field_sort_key(fields): the parts for the requested
\* fields, then created_at and id as they are.
key_fn(fields, it) ==
  [i \in 1..Len(fields) |-> KeyPart(it, fields[i].name, fields[i].asc)]
    \o << GetOr(it, F_created_at, Str(<<>>)), GetOr(it, F_id, Str(<<>>)) >>

\* Python's < on two lists of strings (lexicographic).
RECURSIVE ListLess(_, _)
ListLess(a, b) ==
  IF b = <<>> THEN FALSE
  ELSE IF a = <<>> THEN TRUE
  ELSE IF a[1] # b[1] THEN StrLess(a[1], b[1])
  ELSE ListLess(Tail(a), Tail(b))

\* Whether Python's < is defined between two different values.
Comparable(a, b) ==
  \/ a.t = "str" /\ b.t = "str"
  \/ IsNumber(a) /\ IsNumber(b)
  \/ a.t = "list" /\ b.t = "list"

\* a < b on two comparable values.
ValLess(a, b) ==
  CASE a.t = "str"  -> StrLess(a.s, b.s)
    [] a.t = "list" -> ListLess(a.l, b.l)
    [] OTHER        -> NumLess(a, b)

\* Index of the first position where two equally long tuples differ, or 0.
FirstDiff(ka, kb) ==
  IF \E i \in 1..Len(ka) : ka[i] # kb[i]
  THEN CHOOSE i \in 1..Len(ka) : ka[i] # kb[i] /\ \A j \in 1..(i - 1) : ka[j] = kb[j]
  ELSE 0

\* Whether ka < kb raises TypeError: the first differing parts have types
\* Python cannot order.
KeyClash(ka, kb) ==
  /\ FirstDiff(ka, kb) # 0
  /\ ~Comparable(ka[FirstDiff(ka, kb)], kb[FirstDiff(ka, kb)])

\* Python's < on two key tuples that do not clash.
KeyLess(ka, kb) ==
  /\ FirstDiff(ka, kb) # 0
  /\ ValLess(ka[FirstDiff(ka, kb)], kb[FirstDiff(ka, kb)])

\* Insert x into a sorted list after every element it is not less than.
RECURSIVE InsertByKey(_, _, _)
InsertByKey(fields, x, s) ==
  IF s = <<>> THEN <<x>>
  ELSE IF KeyLess(key_fn(fields, x), key_fn(fields, s[1])) THEN <<x>> \o s
  ELSE <<s[1]>> \o InsertByKey(fields, x, Tail(s))

\* sorted(data, key=key_fn) when no comparison raises: one ascending,
\* stable pass.
RECURSIVE SortedByKey(_, _)
SortedByKey(fields, data) ==
  IF data = <<>> THEN <<>>
  ELSE InsertByKey(fields, data[Len(data)],
                   SortedByKey(fields, SubSeq(data, 1, Len(data) - 1)))

\* The (name, ascending) pairs of a sort_by string: comma-separated, each
\* stripped, empty ones skipped, a leading "-" meaning descending.
SortField(raw) ==
  IF StartsWith(raw, "-")
  THEN [name |-> Tail(raw), asc |-> FALSE]
  ELSE [name |-> raw, asc |-> TRUE]

SortFields(sort_by) ==
  LET kept == SelectSeq(StripAll(SplitComma(sort_by)), LAMBDA r : r # <<>>)
  IN  [i \in 1..Len(kept) |-> SortField(kept[i])]

\* The default when sort_by is absent or empty: ("created_at", False),
\* ("name", True).
DefaultSortFields ==
  << [name |-> F_created_at, asc |-> FALSE], [name |-> F_name, asc |-> TRUE] >>

\* apply_sort(data, sort_by): ok is FALSE when sorted() raises TypeError,
\* which it does when two keys it must order clash.
SortClash(fields, data) ==
  \E i, j \in 1..Len(data) :
    i < j /\ KeyClash(key_fn(fields, data[i]), key_fn(fields, data[j]))

SortWith(fields, data) ==
  IF SortClash(fields, data) THEN [ok |-> FALSE, data |-> <<>>]
  ELSE [ok |-> TRUE, data |-> SortedByKey(fields, data)]

apply_sort(data, sort_by) ==
  SortWith(IF ~Truthy(sort_by) THEN DefaultSortFields ELSE SortFields(sort_by.s), data)

(***************************************************************************)
(* Query parameters: dicts from parameter name to a string (or, for tag,   *)
(* a list of strings)                                                      *)
(***************************************************************************)

\* args.getlist(k): the list itself, [] when absent, [v] for a single value.
getlist(args, k) ==
  IF k \notin DOMAIN args THEN <<>>
  ELSE IF args[k].t = "list" THEN args[k].l ELSE <<args[k].s>>

(***************************************************************************)
(* Filtering                                                               *)
(***************************************************************************)

\* x.get(k, "") of a text field (name, vendor, category), which every item
\* the routes build or generate holds as a string.
TextOf(x, k) == GetOr(x, k, Str(<<>>)).s

\* x.get("tags", [])
TagsOf(x) == GetOr(x, F_tags, List(<<>>)).l

\* The test of the q filter: ql in name, vendor or category lower-cased, or
\* in any tag lower-cased.
QMatch(x, ql) ==
  \/ Contains(Lower(TextOf(x, F_name)), ql)
  \/ Contains(Lower(TextOf(x, F_vendor)), ql)
  \/ Contains(Lower(TextOf(x, F_category)), ql)
  \/ \E i \in 1..Len(TagsOf(x)) : Contains(Lower(TagsOf(x)[i]), ql)

\* A lower bound that leaves out the items equal to it.
AtLeast_Strict(x, f, bound) == IsNumber(Get(x, f)) /\ NumLess(bound, Get(x, f))

\* isinstance(x.get(f), (int, float)) and x[f] >= bound
AtLeast(x, f, bound) == IsNumber(Get(x, f)) /\ NumLeq(bound, Get(x, f))

\* isinstance(x.get(f), (int, float)) and x[f] <= bound
AtMost(x, f, bound) == IsNumber(Get(x, f)) /\ NumLeq(Get(x, f), bound)

\* Each filter is [x for x in out if test(x)] when its parameter is set,
\* else out itself.
KeepEqual(data, f, v) ==
  IF Truthy(v) THEN SelectSeq(data, LAMBDA x : Get(x, f) = v) ELSE data

KeepAtLeast(data, f, bound) ==
  IF bound # None THEN SelectSeq(data, LAMBDA x : AtLeast(x, f, bound)) ELSE data

KeepAtMost(data, f, bound) ==
  IF bound # None THEN SelectSeq(data, LAMBDA x : AtMost(x, f, bound)) ELSE data

KeepTagged(data, tags) ==
  IF tags # <<>>
  THEN SelectSeq(data, LAMBDA x : SetOf(tags) \subseteq SetOf(TagsOf(x)))
  ELSE data

KeepMatching(data, q) ==
  IF Truthy(q) THEN SelectSeq(data, LAMBDA x : QMatch(x, Lower(q.s))) ELSE data

\* apply_filters(data, args): eight list comprehensions in a row, each run
\* only when its parameter is set: category, vendor, min_price, max_price,
\* min_rating, max_rating, tag, q.
apply_filters(data, args) ==
  KeepMatching(
    KeepTagged(
      KeepAtMost(
        KeepAtLeast(
          KeepAtMost(
            KeepAtLeast(
              KeepEqual(
                KeepEqual(data, F_category, Get(args, "category")),
                F_vendor, Get(args, "vendor")),
              F_price, coerce_number(Get(args, "min_price"))),
            F_price, coerce_number(Get(args, "max_price"))),
          F_rating, coerce_number(Get(args, "min_rating"))),
        F_rating, coerce_number(Get(args, "max_rating"))),
      getlist(args, "tag")),
    Get(args, "q"))

(***************************************************************************)
(* Pagination                                                              *)
(***************************************************************************)

DefaultLimit == 50

MaxLimit == 500

DefaultPage == 1

DefaultPageSize == 50

MaxPageSize == 500

Max(a, b) == IF a >= b THEN a ELSE b

Min(a, b) == IF a <= b THEN a ELSE b

\* data[a:b] for 0 <= a.
Slice(data, a, b) == SubSeq(data, a + 1, Min(b, Len(data)))

\* Whether int() raises ValueError on either of two optional parameters.
BadInt(a, b) == (a # None /\ ~IntOk(a.s)) \/ (b # None /\ ~IntOk(b.s))

\* int(v) if v is not None else default, both falling back to their
\* defaults when bad.
IntOr(v, default, bad) == IF bad \/ v = None THEN default ELSE IntVal(v.s)

\* An offset page that reports more items when the page ends at the last.
OffsetPage_MoreAtEnd(data, lim, off) ==
  [ page |-> SubSeq(data, off + 1, IF off + lim <= Len(data) THEN off + lim ELSE Len(data)),
    meta |-> [ mode |-> "offset", offset |-> off, limit |-> lim,
               total |-> Len(data),
               returned |-> Len(SubSeq(data, off + 1,
                                       IF off + lim <= Len(data) THEN off + lim ELSE Len(data))),
               has_more |-> (off + lim <= Len(data)) ] ]

\* The slice and metadata for a clamped limit and offset.
OffsetPage(data, lim, off) ==
  [ page |-> Slice(data, off, off + lim),
    meta |-> [ mode |-> "offset", offset |-> off, limit |-> lim,
               total |-> Len(data), returned |-> Len(Slice(data, off, off + lim)),
               has_more |-> (off + lim < Len(data)) ] ]

\* The offset/limit branch of apply_pagination.
OffsetPagination(data, limit, offset) ==
  OffsetPage(data,
             Max(0, Min(IntOr(limit, DefaultLimit, BadInt(limit, offset)), MaxLimit)),
             Max(0, IntOr(offset, 0, BadInt(limit, offset))))

\* A page count that rounds down.
PageCount_Floor(total, page_size) == total \div page_size

\* (total + page_size - 1) // page_size if page_size else 0
PageCount(total, page_size) ==
  IF page_size # 0 THEN (total + page_size - 1) \div page_size ELSE 0

\* The slice and metadata for a clamped page and page_size.
PageOf(data, page, page_size) ==
  [ page |-> Slice(data, (page - 1) * page_size, (page - 1) * page_size + page_size),
    meta |-> [ mode |-> "page", page |-> page, page_size |-> page_size,
               total |-> Len(data), pages |-> PageCount(Len(data), page_size),
               returned |-> Len(Slice(data, (page - 1) * page_size,
                                      (page - 1) * page_size + page_size)),
               has_next |-> (page < PageCount(Len(data), page_size)),
               has_prev |-> (page > 1) ] ]

\* The page/page_size branch of apply_pagination.
PagePagination(data, pg, pg_size) ==
  PageOf(data,
         Max(1, IntOr(pg, DefaultPage, BadInt(pg, pg_size))),
         Max(1, Min(IntOr(pg_size, DefaultPageSize, BadInt(pg, pg_size)), MaxPageSize)))

\* apply_pagination(data, args): offset/limit when either is present, else
\* page/page_size.
apply_pagination(data, args) ==
  IF Get(args, "limit") # None \/ Get(args, "offset") # None
  THEN OffsetPagination(data, Get(args, "limit"), Get(args, "offset"))
  ELSE PagePagination(data, Get(args, "page"), Get(args, "page_size"))

(***************************************************************************)
(* create_item: validation and construction of the new item                *)
(***************************************************************************)

LuxuryTag == <<"l", "u", "x", "u", "r", "y">>

\* The rating floor and the price threshold of the luxury rule, in
\* hundredths (4.0 and 1000).
LuxuryMinRating == 400

LuxuryPrice == 100000

\* The 400 test: an empty body, or name, category or a numeric price missing.
PayloadInvalid(payload) ==
  \/ DOMAIN payload = {}
  \/ ~Truthy(Get(payload, F_name))
  \/ ~Truthy(Get(payload, F_category))
  \/ coerce_number(Get(payload, F_price)) = None

\* `a or b`
OrElse(a, b) == IF Truthy(a) THEN a ELSE b

\* The luxury rule's test.
IsLuxury(category, price) ==
  Lower(category.s) = LuxuryTag \/ NumLess(Num(LuxuryPrice), price)

\* The tags after the luxury rule.
LuxuryTags(luxury, tags) ==
  IF luxury /\ ~InList(LuxuryTag, tags) THEN Append(tags, LuxuryTag) ELSE tags

\* max(rating, 4.0) under the luxury rule.
LuxuryRating(luxury, rating) ==
  IF luxury /\ NumLess(rating, Num(LuxuryMinRating)) THEN Num(LuxuryMinRating) ELSE rating

\* The dict literal of create_item, then the luxury rule.
MakeItem(payload, uuid, now, vend, price, luxury) ==
  (F_id :> OrElse(Get(payload, F_id), Str(uuid)))
  @@ (F_name :> Get(payload, F_name))
  @@ (F_category :> Get(payload, F_category))
  @@ (F_price :> price)
  @@ (F_rating :> LuxuryRating(luxury, OrElse(coerce_number(Get(payload, F_rating)), Num(0))))
  @@ (F_tags :> List(LuxuryTags(luxury, OrElse(Get(payload, F_tags), List(<<>>)).l)))
  @@ (F_created_at :> Str(now))
  @@ (F_stock :> OrElse(Get(payload, F_stock), Num(0)))
  @@ (F_vendor :> OrElse(Get(payload, F_vendor), Str(vend)))
  @@ (F_attributes :> Map)

MakeItemPriced(payload, uuid, now, vend, price) ==
  MakeItem(payload, uuid, now, vend, price, IsLuxury(Get(payload, F_category), price))

\* new_item as create_item builds it from a valid payload; uuid stands for
\* str(uuid.uuid4()), now for now_iso(), vend for generate_vendor().
BuildItem(payload, uuid, now, vend) ==
  MakeItemPriced(payload, uuid, now, vend, coerce_number(Get(payload, F_price)))

\* any(it["id"] == id for it in items)
HasId(items, id) == \E i \in 1..Len(items) : items[i][F_id] = id

\* next((x for x in items if x["id"] == item_id), None): found is FALSE for
\* None.
NoItem == [found |-> FALSE, item |-> <<>>]

Lookup(items, item_id) ==
  IF HasId(items, item_id)
  THEN [found |-> TRUE,
        item |-> items[CHOOSE i \in 1..Len(items) :
                         /\ items[i][F_id] = item_id
                         /\ \A j \in 1..(i - 1) : items[j][F_id] # item_id]]
  ELSE NoItem

\* [x for x in items if x["category"] == current["category"] and x["id"] != item_id]
SameCategory(items, cur, item_id) ==
  SelectSeq(items, LAMBDA x : x[F_category] = cur[F_category] /\ x[F_id] # item_id)

(***************************************************************************)
(* The store and its request handlers                                      *)
(***************************************************************************)

\* Requests in one run; app.run(threaded=True) gives each its own thread.
NumThreads == 2

\* Distinct identifiers a request may name.
NumIds == 1

Threads == 1..NumThreads

\* The identifier strings "1", "2", ...
IdStr(i) == <<CharTable[Ord("0") + i]>>

Ids == {IdStr(i) : i \in 1..NumIds}

\* What str(uuid.uuid4()) may return: an id no request names.
Uuids == {<<"u">>}

\* now_iso() at second c: a fixed-width text that sorts by time.
TimeStr(c) == <<"T", CharTable[Ord("0") + c], "Z">>

\* What now_iso() may return during a run: the requests of a run fall
\* within one second, after the stored items were made.
Times == {TimeStr(1)}

Toys == <<"t", "o", "y", "s">>

Acme == <<"A", "c", "m", "e">>

Globex == <<"G", "l", "o", "b", "e", "x">>

\* generate_vendor() picks one of a fixed list.
Vendors == {Globex}

\* Request bodies of POST /items: one per id, one without id and vendor in
\* the luxury category, and one without a price.
Payloads ==
  { (F_id :> Str(id)) @@ (F_name :> Str(<<"k", "i", "t">>)) @@ (F_category :> Str(Toys))
      @@ (F_price :> Num(1000)) @@ (F_vendor :> Str(Acme))
    : id \in Ids }
  \cup { (F_name :> Str(<<"k", "i", "t">>)) @@ (F_category :> Str(LuxuryTag))
           @@ (F_price :> Str(<<"9", ".", "5">>)) }
  \cup { (F_id :> Str(IdStr(1))) @@ (F_name :> Str(<<"k", "i", "t">>))
           @@ (F_category :> Str(Toys)) }

\* Query strings of the list routes.
EmptyArgs == <<>>

ListArgs ==
  { EmptyArgs,
    ("limit" :> Str(<<"1">>)) @@ ("sort_by" :> Str(<<"-">> \o F_price))
      @@ ("fields" :> Str(F_id)) }

\* The fields parameter of GET /items/<id> and /items/<id>/related.
FieldsParams == {Str(F_id \o <<",">> \o F_category)}

\* A file: valid is FALSE for a partly written one.
File(items) == [valid |-> TRUE, items |-> items]

PartialFile == [valid |-> FALSE, items |-> <<>>]

VARIABLES
  ITEMS,     \* the global list of items
  lock,      \* STORE_LOCK: the thread holding it, or 0
  disk,      \* content of DATA_FILE
  tmpf,      \* content of DATA_FILE + ".tmp"
  pc,        \* per thread: where its handler stands
  op,        \* per thread: the route it runs
  arg,       \* per thread: the query parameters or path id
  new_item,  \* per thread: create_item's new_item
  current,   \* per thread: the item get_item / related_items found
  snap,      \* per thread: the list taken from ITEMS under the lock
  status,    \* per thread: the HTTP status of the response
  out,       \* per thread: the items of the response body
  saves,     \* per thread: save_data calls made by the running request
  q_op,      \* pipeline function on its own: the function applied, or "input"
  q_in,      \* pipeline function on its own: the list handed to the function
  q_args,    \* pipeline function on its own: its other argument
  q_res      \* pipeline function on its own: what it returned

vars == <<ITEMS, lock, disk, tmpf, pc, op, arg, new_item, current,
          snap, status, out, saves, q_op, q_in, q_args, q_res>>

storeVars == <<ITEMS, lock, disk, tmpf, pc, op, arg, new_item, current, snap,
               status, out, saves>>

queryVars == <<q_op, q_in, q_args, q_res>>

\* What load_data leaves: ITEMS as read from DATA_FILE (here empty or one
\* item), the file holding the same.
InitialStores ==
  { <<>>,
    << BuildItem((F_id :> Str(IdStr(1))) @@ (F_name :> Str(<<"k", "i", "t">>))
                   @@ (F_category :> Str(Toys)) @@ (F_price :> Num(500))
                   @@ (F_vendor :> Str(Globex)),
                 IdStr(1), TimeStr(0), Acme) >> }

\* The server at rest.
StoreAtRest ==
  /\ lock = 0
  /\ disk = File(ITEMS)
  /\ tmpf = File(<<>>)
  /\ pc = [t \in Threads |-> "idle"]
  /\ op = [t \in Threads |-> "none"]
  /\ arg = [t \in Threads |-> EmptyArgs]
  /\ new_item = [t \in Threads |-> <<>>]
  /\ current = [t \in Threads |-> NoItem]
  /\ snap = [t \in Threads |-> <<>>]
  /\ status = [t \in Threads |-> 0]
  /\ out = [t \in Threads |-> <<>>]
  /\ saves = [t \in Threads |-> 0]

Init ==
  /\ ITEMS \in InitialStores
  /\ StoreAtRest
  /\ q_op = "none"
  /\ q_in = <<>>
  /\ q_args = None
  /\ q_res = <<>>

\* A request arrives at an idle thread.
Begin(t, route, a) ==
  /\ pc[t] = "idle"
  /\ op' = [op EXCEPT ![t] = route]
  /\ arg' = [arg EXCEPT ![t] = a]

\* create_item up to the lock: 400 for an invalid body, else new_item.
StartCreate(t) ==
  \E payload \in Payloads, uuid \in Uuids, now \in Times, vend \in Vendors :
    /\ Begin(t, "create", EmptyArgs)
    /\ IF PayloadInvalid(payload)
       THEN /\ status' = [status EXCEPT ![t] = 400]
            /\ pc' = [pc EXCEPT ![t] = "done"]
            /\ UNCHANGED new_item
       ELSE /\ new_item' = [new_item EXCEPT ![t] = BuildItem(payload, uuid, now, vend)]
            /\ pc' = [pc EXCEPT ![t] = "acquire"]
            /\ UNCHANGED status
    /\ UNCHANGED <<ITEMS, lock, disk, tmpf, current, snap, out, saves>>
    /\ UNCHANGED queryVars

\* list_items up to the lock.
StartList(t) ==
  \E a \in ListArgs :
    /\ Begin(t, "list", a)
    /\ pc' = [pc EXCEPT ![t] = "acquire"]
    /\ UNCHANGED <<ITEMS, lock, disk, tmpf, new_item, current, snap, status, out, saves>>
    /\ UNCHANGED queryVars

\* list_items_by_category up to the lock: the path segment overrides the
\* category parameter.
StartListByCategory(t) ==
  \E c \in {Toys} :
    /\ Begin(t, "list", ("category" :> Str(c)) @@ EmptyArgs)
    /\ pc' = [pc EXCEPT ![t] = "acquire"]
    /\ UNCHANGED <<ITEMS, lock, disk, tmpf, new_item, current, snap, status, out, saves>>
    /\ UNCHANGED queryVars

\* list_items_by_price_range for the coerced path segments mn and mx.
ListByPrice(t, mn, mx) ==
  /\ Begin(t, "list", ("min_price" :> mn) @@ ("max_price" :> mx) @@ EmptyArgs)
  /\ IF mn = None \/ mx = None
     THEN /\ status' = [status EXCEPT ![t] = 400]
          /\ pc' = [pc EXCEPT ![t] = "done"]
     ELSE /\ pc' = [pc EXCEPT ![t] = "acquire"]
          /\ UNCHANGED status
  /\ UNCHANGED <<ITEMS, lock, disk, tmpf, new_item, current, snap, out, saves>>
  /\ UNCHANGED queryVars

\* list_items_by_price_range up to the lock: 400 unless both path segments
\* are numeric, else they override min_price and max_price.
StartListByPrice(t) ==
  \E lo \in {<<"0">>, <<"x">>}, hi \in {<<"9">>} :
    ListByPrice(t, coerce_number(Str(lo)), coerce_number(Str(hi)))

\* get_item up to the lock.
StartGet(t) ==
  \E id \in Ids, f \in FieldsParams :
    /\ Begin(t, "get", ("item_id" :> Str(id)) @@ ("fields" :> f))
    /\ pc' = [pc EXCEPT ![t] = "acquire"]
    /\ UNCHANGED <<ITEMS, lock, disk, tmpf, new_item, current, snap, status, out, saves>>
    /\ UNCHANGED queryVars

\* related_items up to the lock.
StartRelated(t) ==
  \E id \in Ids, f \in FieldsParams :
    /\ Begin(t, "related", ("item_id" :> Str(id)) @@ ("fields" :> f))
    /\ pc' = [pc EXCEPT ![t] = "acquire"]
    /\ UNCHANGED <<ITEMS, lock, disk, tmpf, new_item, current, snap, status, out, saves>>
    /\ UNCHANGED queryVars

\* A lock that excludes nobody.
CanAcquire_Always(t) == TRUE

\* STORE_LOCK.acquire(): whether thread t may take the lock now.
CanAcquire(t) == lock = 0

\* with STORE_LOCK: entry, up to the first statement inside the block.
Acquire(t) ==
  /\ pc[t] = "acquire"
  /\ CanAcquire(t)
  /\ lock' = t
  /\ pc' = [pc EXCEPT ![t] = CASE op[t] = "create"  -> "c_check"
                                [] op[t] = "list"    -> "l_copy"
                                [] op[t] = "get"     -> "g_find"
                                [] op[t] = "related" -> "r_find"]
  /\ UNCHANGED <<ITEMS, disk, tmpf, op, arg, new_item, current, snap, status, out, saves>>
  /\ UNCHANGED queryVars

\* A duplicate test that never fires.
IsDuplicate_Never(items, item) == FALSE

\* The duplicate test of create_item.
IsDuplicate(items, item) == HasId(items, item[F_id])

\* create_item: reject a duplicate id with 409, leaving the with block.
Check(t) ==
  /\ pc[t] = "c_check"
  /\ IF IsDuplicate(ITEMS, new_item[t])
     THEN /\ status' = [status EXCEPT ![t] = 409]
          /\ pc' = [pc EXCEPT ![t] = "release"]
     ELSE /\ pc' = [pc EXCEPT ![t] = "c_append"]
          /\ UNCHANGED status
  /\ UNCHANGED <<ITEMS, lock, disk, tmpf, op, arg, new_item, current, snap, out, saves>>
  /\ UNCHANGED queryVars

\* create_item: ITEMS.append(new_item).
AppendItem(t) ==
  /\ pc[t] = "c_append"
  /\ ITEMS' = Append(ITEMS, new_item[t])
  /\ pc' = [pc EXCEPT ![t] = "c_save"]
  /\ UNCHANGED <<lock, disk, tmpf, op, arg, new_item, current, snap, status, out, saves>>
  /\ UNCHANGED queryVars

\* save_data, first half: write ITEMS to the temporary file.  open() or
\* json.dump may raise; the exception leaves the with block and the route.
SaveWrite(t) ==
  /\ pc[t] = "c_save"
  /\ saves' = [saves EXCEPT ![t] = @ + 1]
  /\ \/ /\ tmpf' = File(ITEMS)
        /\ pc' = [pc EXCEPT ![t] = "c_replace"]
        /\ UNCHANGED status
     \/ /\ tmpf' \in {tmpf, PartialFile}
        /\ status' = [status EXCEPT ![t] = 500]
        /\ pc' = [pc EXCEPT ![t] = "release"]
  /\ UNCHANGED <<ITEMS, lock, disk, op, arg, new_item, current, snap, out>>
  /\ UNCHANGED queryVars

\* save_data, second half: os.replace(tmp, DATA_FILE), which may raise.
SaveReplace(t) ==
  /\ pc[t] = "c_replace"
  /\ \/ /\ disk' = tmpf
        /\ status' = [status EXCEPT ![t] = 201]
     \/ /\ status' = [status EXCEPT ![t] = 500]
        /\ UNCHANGED disk
  /\ pc' = [pc EXCEPT ![t] = "release"]
  /\ UNCHANGED <<ITEMS, lock, tmpf, op, arg, new_item, current, snap, out, saves>>
  /\ UNCHANGED queryVars

\* The three list routes: data = ITEMS.copy().
ListCopy(t) ==
  /\ pc[t] = "l_copy"
  /\ snap' = [snap EXCEPT ![t] = ITEMS]
  /\ status' = [status EXCEPT ![t] = 200]
  /\ pc' = [pc EXCEPT ![t] = "release"]
  /\ UNCHANGED <<ITEMS, lock, disk, tmpf, op, arg, new_item, current, out, saves>>
  /\ UNCHANGED queryVars

\* get_item: look the id up in ITEMS.
GetFind(t) ==
  /\ pc[t] = "g_find"
  /\ current' = [current EXCEPT ![t] = Lookup(ITEMS, arg[t]["item_id"])]
  /\ status' = [status EXCEPT ![t] = IF HasId(ITEMS, arg[t]["item_id"]) THEN 200 ELSE 404]
  /\ pc' = [pc EXCEPT ![t] = "release"]
  /\ UNCHANGED <<ITEMS, lock, disk, tmpf, op, arg, new_item, snap, out, saves>>
  /\ UNCHANGED queryVars

\* related_items: look the base item up; 404 leaves the with block.
RelatedFind(t) ==
  /\ pc[t] = "r_find"
  /\ current' = [current EXCEPT ![t] = Lookup(ITEMS, arg[t]["item_id"])]
  /\ IF HasId(ITEMS, arg[t]["item_id"])
     THEN /\ pc' = [pc EXCEPT ![t] = "r_same"]
          /\ UNCHANGED status
     ELSE /\ status' = [status EXCEPT ![t] = 404]
          /\ pc' = [pc EXCEPT ![t] = "release"]
  /\ UNCHANGED <<ITEMS, lock, disk, tmpf, op, arg, new_item, snap, out, saves>>
  /\ UNCHANGED queryVars

\* related_items: collect the other items of the base item's category.
RelatedSameCat(t) ==
  /\ pc[t] = "r_same"
  /\ snap' = [snap EXCEPT ![t] = SameCategory(ITEMS, current[t].item, arg[t]["item_id"])]
  /\ status' = [status EXCEPT ![t] = 200]
  /\ pc' = [pc EXCEPT ![t] = "release"]
  /\ UNCHANGED <<ITEMS, lock, disk, tmpf, op, arg, new_item, current, out, saves>>
  /\ UNCHANGED queryVars

(***************************************************************************)
(* Building the responses, outside the lock                                *)
(***************************************************************************)

\* [project_fields(x, fields) for x in page] if fields else page
ProjectAll(page, fields) ==
  IF Truthy(fields) THEN [i \in 1..Len(page) |-> project_fields(page[i], fields)] ELSE page

\* The list routes after sorting: paginate and project, or 500 when
\* sorted() raised TypeError.
ListBody(sorted, args) ==
  IF sorted.ok
  THEN [status |-> 200,
        body |-> ProjectAll(apply_pagination(sorted.data, args).page,
                            parse_fields_param(Get(args, "fields")))]
  ELSE [status |-> 500, body |-> <<>>]

\* The list routes after the copy: filter, sort, paginate, project.
ListResponse(data, args) ==
  ListBody(apply_sort(apply_filters(data, args), Get(args, "sort_by")), args)

\* get_item after the lookup.
GetResponse(cur, args) ==
  IF cur.found
  THEN [status |-> 200,
        body |-> <<project_fields(cur.item, parse_fields_param(Get(args, "fields")))>>]
  ELSE [status |-> 404, body |-> <<>>]

RelatedDefaultLimit == 5

RelatedMaxLimit == 50

\* "-rating,price"
RelatedDefaultSort == <<"-">> \o F_rating \o <<",">> \o F_price

\* int(request.args.get("limit", 5)), 5 on ValueError, clamped to [0, 50].
RelatedLimit(raw) ==
  Max(0, Min(IntOr(raw, RelatedDefaultLimit, BadInt(raw, None)), RelatedMaxLimit))

\* related_items after sorting: head-limit and project.
RelatedBody(sorted, args) ==
  IF sorted.ok
  THEN [status |-> 200,
        body |-> ProjectAll(Slice(sorted.data, 0, RelatedLimit(Get(args, "limit"))),
                            parse_fields_param(Get(args, "fields")))]
  ELSE [status |-> 500, body |-> <<>>]

\* related_items after the with block: sort, head-limit, project.
RelatedResponse(same_cat, args) ==
  RelatedBody(apply_sort(same_cat, OrElse(Get(args, "sort_by"), Str(RelatedDefaultSort))),
              args)

\* What the route returns once the lock is released.
Response(t) ==
  CASE status[t] # 200 /\ status[t] # 201 -> [status |-> status[t], body |-> <<>>]
    [] op[t] = "create"  -> [status |-> 201, body |-> <<new_item[t]>>]
    [] op[t] = "list"    -> ListResponse(snap[t], arg[t])
    [] op[t] = "get"     -> GetResponse(current[t], arg[t])
    [] op[t] = "related" -> RelatedResponse(snap[t], arg[t])

\* with STORE_LOCK: exit, by falling through, by return or by exception;
\* then the rest of the route, which works on the thread's own data only.
ReleaseWith(t, resp) ==
  /\ pc[t] = "release"
  /\ lock' = 0
  /\ status' = [status EXCEPT ![t] = resp.status]
  /\ out' = [out EXCEPT ![t] = resp.body]
  /\ pc' = [pc EXCEPT ![t] = "done"]
  /\ UNCHANGED <<ITEMS, disk, tmpf, op, arg, new_item, current, snap, saves>>
  /\ UNCHANGED queryVars

Release(t) == ReleaseWith(t, Response(t))

\* The response is sent; the thread ends and its locals are gone.
Finish(t) ==
  /\ pc[t] = "done"
  /\ pc' = [pc EXCEPT ![t] = "ended"]
  /\ op' = [op EXCEPT ![t] = "none"]
  /\ arg' = [arg EXCEPT ![t] = EmptyArgs]
  /\ new_item' = [new_item EXCEPT ![t] = <<>>]
  /\ current' = [current EXCEPT ![t] = NoItem]
  /\ snap' = [snap EXCEPT ![t] = <<>>]
  /\ status' = [status EXCEPT ![t] = 0]
  /\ out' = [out EXCEPT ![t] = <<>>]
  /\ saves' = [saves EXCEPT ![t] = 0]
  /\ UNCHANGED <<ITEMS, lock, disk, tmpf>>
  /\ UNCHANGED queryVars

\* One step of one request thread.
Next ==
  \/ \E t \in Threads : StartCreate(t)
  \/ \E t \in Threads : StartList(t)
  \/ \E t \in Threads : StartListByCategory(t)
  \/ \E t \in Threads : StartListByPrice(t)
  \/ \E t \in Threads : StartGet(t)
  \/ \E t \in Threads : StartRelated(t)
  \/ \E t \in Threads : Acquire(t)
  \/ \E t \in Threads : Check(t)
  \/ \E t \in Threads : AppendItem(t)
  \/ \E t \in Threads : SaveWrite(t)
  \/ \E t \in Threads : SaveReplace(t)
  \/ \E t \in Threads : ListCopy(t)
  \/ \E t \in Threads : GetFind(t)
  \/ \E t \in Threads : RelatedFind(t)
  \/ \E t \in Threads : RelatedSameCat(t)
  \/ \E t \in Threads : Release(t)
  \/ \E t \in Threads : Finish(t)

\* The server under concurrent requests.
Spec == Init /\ [][Next]_vars

(***************************************************************************)
(* The pipeline functions one at a time, on lists drawn from bounded sets  *)
(***************************************************************************)

\* All lists over S of length at most n.
SeqsUpTo(S, n) == UNION {[1..k -> S] : k \in 0..n}

\* key :> v, or the empty dict when v is None.
Opt(k, v) == IF v = None THEN <<>> ELSE (k :> v)

\* The store idle and empty while a pipeline function runs on its own.
InitQuery(inputs) ==
  /\ ITEMS = <<>>
  /\ StoreAtRest
  /\ q_op = "input"
  /\ q_in \in inputs
  /\ q_args = None
  /\ q_res = <<>>

\* Function f is applied to q_in with argument a and returns r.
Applied(f, a, r) ==
  /\ q_op = "input"
  /\ q_op' = f
  /\ q_args' = a
  /\ q_res' = r
  /\ UNCHANGED q_in
  /\ UNCHANGED storeVars

\* Longest list handed to apply_sort.
MaxSortLen == 2

Pro == <<"p", "r", "o">>

Lite == <<"l", "i", "t", "e">>

\* Items to sort: two ids, two names that differ in case and in order,
\* two timestamps, the price absent or one of two numbers.
SortItems ==
  { (F_id :> Str(id)) @@ (F_name :> Str(nm)) @@ (F_created_at :> Str(ca)) @@ Opt(F_price, pr)
    : id \in {IdStr(1), IdStr(2)}, nm \in {<<"a">>, <<"B">>},
      ca \in {TimeStr(0), TimeStr(1)}, pr \in {None, Num(1000), Num(2000)} }

\* Values of the sort_by parameter: absent, empty, price, -price, -name.
SortBys ==
  { None, Str(<<>>), Str(F_price), Str(<<"-">> \o F_price), Str(<<"-">> \o F_name) }

\* No two items of the list share an id, as in a store built by create_item.
DistinctIds(data) ==
  \A i \in 1..Len(data) : \A j \in 1..Len(data) : data[i][F_id] = data[j][F_id] => i = j

ApplySort == \E sort_by \in SortBys : Applied("apply_sort", sort_by, apply_sort(q_in, sort_by))

\* apply_sort on every list of SortItems up to MaxSortLen.
SpecSort ==
  /\ InitQuery({data \in SeqsUpTo(SortItems, MaxSortLen) : DistinctIds(data)})
  /\ [][ApplySort]_vars

\* The text of a field of an item.
FieldText(x, f) == Get(x, f).s

\* a comes no later than b in the order the default sort is documented to
\* give: newest first, then name ascending without regard to case, then
\* id ascending.
NewestFirst(a, b) ==
  /\ ~StrLess(FieldText(a, F_created_at), FieldText(b, F_created_at))
  /\ FieldText(a, F_created_at) = FieldText(b, F_created_at)
       => /\ ~StrLess(Lower(FieldText(b, F_name)), Lower(FieldText(a, F_name)))
          /\ Lower(FieldText(a, F_name)) = Lower(FieldText(b, F_name))
               => ~StrLess(FieldText(b, F_id), FieldText(a, F_id))

\* C5: with no sort_by, apply_sort returns the items newest first, ties on
\* created_at broken by name ascending (case-insensitive), then by id
\* ascending.
C5_DefaultNewestFirst ==
  (q_op = "apply_sort" /\ ~Truthy(q_args) /\ q_in # <<>>)
    => /\ q_res.ok
       /\ \A i \in 1..(Len(q_res.data) - 1) : NewestFirst(q_res.data[i], q_res.data[i + 1])

\* The field a one-field sort_by text asks for, and whether ascending.
AskedField(sort_by) == IF sort_by[1] = "-" THEN Tail(sort_by) ELSE sort_by

AskedAscending(sort_by) == sort_by[1] # "-"

\* Item x has no value for field f: the key is absent or holds null.
Lacks(x, f) == f \notin DOMAIN x \/ x[f] = None

\* In res every item lacking f comes after every item that has it
\* (ascending), or before every item that has it (descending).
LackingAtEnd(res, f, asc) ==
  \A i \in 1..Len(res) : \A j \in (i + 1)..Len(res) :
    IF asc THEN ~(Lacks(res[i], f) /\ ~Lacks(res[j], f))
    ELSE ~(~Lacks(res[i], f) /\ Lacks(res[j], f))

\* C11: when some items lack the field sort_by asks for, apply_sort ends
\* without error and returns a permutation of its input in which the items
\* lacking the field come last when the field is sorted ascending and
\* first when it is sorted descending.
C11_MissingFieldPlacement ==
  (/\ q_op = "apply_sort"
   /\ Truthy(q_args)
   /\ \E i \in 1..Len(q_in) : Lacks(q_in[i], AskedField(q_args.s)))
    => /\ q_res.ok
       /\ Len(q_res.data) = Len(q_in)
       /\ SetOf(q_res.data) = SetOf(q_in)
       /\ LackingAtEnd(q_res.data, AskedField(q_args.s), AskedAscending(q_args.s))

\* Longest list handed to apply_filters.
MaxFilterLen == 2

Home == <<"h", "o", "m", "e">>

\* One stored item per category and price; the price is missing, text or
\* a number, and name, vendor, tags and rating (missing, text or a number)
\* vary with them.
FilterItem(cat, pr) ==
  (F_name :> Str(IF cat = Toys THEN <<"A", "c", "e", " ", "K", "i", "t">> ELSE <<"B", "o", "x">>))
    @@ (F_category :> Str(cat))
    @@ (F_vendor :> Str(IF pr \in {None, Num(1000)} THEN Acme ELSE Globex))
    @@ (F_tags :> IF pr = Num(1000) THEN List(<<Pro, Lite>>)
                 ELSE IF cat = Home THEN List(<<Pro>>) ELSE List(<<>>))
    @@ Opt(F_price, pr)
    @@ Opt(F_rating, IF cat = Toys
                     THEN (IF pr = Num(2000) THEN None ELSE Num(450))
                     ELSE (IF pr = None THEN Str(<<"x">>) ELSE Num(300)))

FilterItems ==
  { FilterItem(cat, pr) : cat \in {Toys, Home}, pr \in {None, Str(<<"x">>), Num(1000), Num(2000)} }

\* Query strings of the filter parameters: each absent or one of a few
\* values, empty and non-numeric ones included.
FilterArgs ==
  { Opt("category", c) @@ Opt("vendor", v) @@ Opt("min_price", mn) @@ Opt("max_price", mx)
      @@ Opt("min_rating", rn) @@ Opt("max_rating", rx) @@ Opt("tag", tg) @@ Opt("q", qq)
    : c \in {None, Str(<<>>), Str(Toys)},
      v \in {None, Str(Acme)},
      mn \in {None, Str(<<"x">>), Str(<<"1", "0">>)},
      mx \in {None, Str(<<"1", "5">>)},
      rn \in {None, Str(<<"4">>)},
      rx \in {None, Str(<<"4", ".", "5">>)},
      tg \in {None, List(<<Pro, Lite>>)},
      qq \in {None, Str(<<"K", "i">>), Str(<<"L", "I", "T">>)} }

ApplyFilters == \E args \in FilterArgs : Applied("apply_filters", args, apply_filters(q_in, args))

\* apply_filters on every list of FilterItems up to MaxFilterLen.
SpecFilter ==
  /\ InitQuery(SeqsUpTo(FilterItems, MaxFilterLen))
  /\ [][ApplyFilters]_vars

\* The numbers (in hundredths) that the numeric texts of FilterArgs denote.
BoundTexts ==
  (<<"1", "0">> :> 1000) @@ (<<"1", "5">> :> 1500) @@ (<<"4">> :> 400) @@ (<<"4", ".", "5">> :> 450)

\* Parameter k is present and is the text of a number.
HasBound(args, k) == k \in DOMAIN args /\ args[k].s \in DOMAIN BoundTexts

\* Parameter k is present and not empty.
HasText(args, k) == k \in DOMAIN args /\ args[k].s # <<>>

\* Field f of x is present and a number.
HasNumber(x, f) == f \in DOMAIN x /\ x[f].t = "num"

\* The texts of x that the free-text filter searches.
Searched(x) == {x[F_name].s, x[F_vendor].s, x[F_category].s} \cup SetOf(x[F_tags].l)

\* x satisfies every predicate that args makes active.
Satisfies(x, args) ==
  /\ HasText(args, "category") => x[F_category] = args["category"]
  /\ HasText(args, "vendor") => x[F_vendor] = args["vendor"]
  /\ HasBound(args, "min_price")
       => HasNumber(x, F_price) /\ x[F_price].n >= BoundTexts[args["min_price"].s]
  /\ HasBound(args, "max_price")
       => HasNumber(x, F_price) /\ x[F_price].n <= BoundTexts[args["max_price"].s]
  /\ HasBound(args, "min_rating")
       => HasNumber(x, F_rating) /\ x[F_rating].n >= BoundTexts[args["min_rating"].s]
  /\ HasBound(args, "max_rating")
       => HasNumber(x, F_rating) /\ x[F_rating].n <= BoundTexts[args["max_rating"].s]
  /\ "tag" \in DOMAIN args => SetOf(args["tag"].l) \subseteq SetOf(x[F_tags].l)
  /\ HasText(args, "q")
       => \E text \in Searched(x) : Contains(Lower(text), Lower(args["q"].s))

\* C6: apply_filters returns exactly the items of its input that satisfy
\* every active predicate, in input order; an absent, empty or non-numeric
\* parameter constrains nothing, and an item whose price or rating is
\* missing or not a number is dropped whenever a bound on it is active.
C6_FilterIsExactSelection ==
  q_op = "apply_filters" => q_res = SelectSeq(q_in, LAMBDA x : Satisfies(x, q_args))

\* A price bound is active beside an empty category: the first item, whose
\* price is text, is dropped and the second is kept.
C6_Witness ==
  /\ q_op = "apply_filters"
  /\ HasBound(q_args, "min_price")
  /\ "category" \in DOMAIN q_args
  /\ ~HasText(q_args, "category")
  /\ Len(q_in) = 2
  /\ Get(q_in[1], F_price) = Str(<<"x">>)
  /\ q_res = <<q_in[2]>>

\* Longest list handed to apply_pagination.
MaxTotal == 5

\* The lists to paginate: items "1" .. "n" in that order, the empty list
\* included.
PageInputs == {[i \in 1..n |-> (F_id :> Str(IdStr(i)))] : n \in 0..MaxTotal}

\* Query strings of the pagination parameters: each absent, in range,
\* below range, above range, or not an integer.
PageArgs ==
  { Opt("limit", lm) @@ Opt("offset", of) @@ Opt("page", pg) @@ Opt("page_size", ps)
    : lm \in {None, Str(<<>>), Str(<<"0">>), Str(<<"2">>), Str(<<"-", "1">>),
              Str(<<"5", "0", "1">>), Str(<<"x">>), Str(<<" ", "3">>)},
      of \in {None, Str(<<"0">>), Str(<<"1">>), Str(<<"-", "2">>), Str(<<"x">>), Str(<<"7">>)},
      pg \in {None, Str(<<"2">>), Str(<<"0">>), Str(<<"x">>), Str(<<"4">>)},
      ps \in {None, Str(<<"2">>), Str(<<"0">>), Str(<<"5", "0", "1">>), Str(<<"2", ".", "5">>)} }

ApplyPagination ==
  \E args \in PageArgs : Applied("apply_pagination", args, apply_pagination(q_in, args))

\* apply_pagination on every list of PageInputs.
SpecPage ==
  /\ InitQuery(PageInputs)
  /\ [][ApplyPagination]_vars

\* The integers that the well-formed texts of PageArgs denote.
PageTexts ==
  (<<"0">> :> 0) @@ (<<"1">> :> 1) @@ (<<"2">> :> 2) @@ (<<"4">> :> 4) @@ (<<"7">> :> 7)
    @@ (<<" ", "3">> :> 3) @@ (<<"-", "1">> :> -1) @@ (<<"-", "2">> :> -2)
    @@ (<<"5", "0", "1">> :> 501)

\* One of the parameters ks is present and is not the text of an integer.
Malformed(args, ks) == \E k \in ks \cap DOMAIN args : args[k].s \notin DOMAIN PageTexts

\* The value asked for by parameter k, or default when it is absent.
Requested(args, k, default) == IF k \in DOMAIN args THEN PageTexts[args[k].s] ELSE default

\* v brought into lo .. hi.
Clamp(lo, v, hi) == IF v < lo THEN lo ELSE IF v > hi THEN hi ELSE v

\* The limit and offset that offset mode is to apply.
LimitFor(args) ==
  IF Malformed(args, {"limit", "offset"}) THEN 50 ELSE Clamp(0, Requested(args, "limit", 50), 500)

OffsetFor(args) ==
  IF Malformed(args, {"limit", "offset"}) THEN 0
  ELSE IF Requested(args, "offset", 0) < 0 THEN 0 ELSE Requested(args, "offset", 0)

\* page and meta are right for offset mode on data.
OffsetResultOk(data, args, page, meta) ==
  /\ meta.mode = "offset"
  /\ meta.limit \in 0..500
  /\ meta.offset >= 0
  /\ meta.limit = LimitFor(args)
  /\ meta.offset = OffsetFor(args)
  /\ meta.total = Len(data)
  /\ meta.returned = Min(meta.limit, Max(0, Len(data) - meta.offset))
  /\ page = [i \in 1..meta.returned |-> data[meta.offset + i]]
  /\ meta.has_more = (meta.offset + meta.limit < Len(data))

\* C7: when limit or offset is present apply_pagination works in offset
\* mode, whatever page and page_size say: the limit applied is in 0..500
\* and the offset is at least 0 (50 and 0 when either text is not an
\* integer), the page is data[offset : offset + limit], returned is
\* min(limit, max(0, total - offset)) and has_more is offset + limit < total.
C7_OffsetMode ==
  (q_op = "apply_pagination" /\ {"limit", "offset"} \cap DOMAIN q_args # {})
    => OffsetResultOk(q_in, q_args, q_res.page, q_res.meta)

\* limit=2 and offset=1 beside page=2 on five items: items 2 and 3 are
\* returned in offset mode and more remain.
C7_Witness ==
  /\ q_op = "apply_pagination"
  /\ {"limit", "offset", "page"} \subseteq DOMAIN q_args
  /\ q_args["limit"] = Str(<<"2">>)
  /\ q_args["offset"] = Str(<<"1">>)
  /\ Len(q_in) = 5
  /\ q_res.page = <<q_in[2], q_in[3]>>
  /\ q_res.meta.has_more

\* The page and page size that page mode is to apply.
PageFor(args) ==
  IF Malformed(args, {"page", "page_size"}) THEN 1
  ELSE IF Requested(args, "page", 1) < 1 THEN 1 ELSE Requested(args, "page", 1)

PageSizeFor(args) ==
  IF Malformed(args, {"page", "page_size"}) THEN 50
  ELSE Clamp(1, Requested(args, "page_size", 50), 500)

\* The 0-based positions of data that page number pg of size ps covers.
Positions(data, pg, ps) ==
  {i \in 0..(Len(data) - 1) : (pg - 1) * ps <= i /\ i <= pg * ps - 1}

\* n is the ceiling of total / ps.
IsCeiling(n, total, ps) == n >= 0 /\ n * ps >= total /\ (n - 1) * ps < total

\* page=2 and page_size=2 on five items.
Scenario(data, args) ==
  /\ {"page", "page_size"} \subseteq DOMAIN args
  /\ args["page"] = Str(<<"2">>)
  /\ args["page_size"] = Str(<<"2">>)
  /\ Len(data) = 5

\* page and meta are right for page mode on data.
PageResultOk(data, args, page, meta) ==
  /\ meta.mode = "page"
  /\ meta.page >= 1
  /\ meta.page_size \in 1..500
  /\ meta.page = PageFor(args)
  /\ meta.page_size = PageSizeFor(args)
  /\ meta.total = Len(data)
  /\ IsCeiling(meta.pages, Len(data), meta.page_size)
  /\ meta.has_prev = (meta.page > 1)
  /\ meta.has_next = (meta.page < meta.pages)
  /\ meta.returned = Cardinality(Positions(data, meta.page, meta.page_size))
  /\ page = [i \in 1..meta.returned |-> data[(meta.page - 1) * meta.page_size + i]]
  /\ Scenario(data, args)
       => meta.returned = 2 /\ meta.pages = 3 /\ meta.has_next /\ meta.has_prev

\* C8: when neither limit nor offset is present apply_pagination works in
\* page mode: the page applied is at least 1 and the page size is in
\* 1..500, pages is the ceiling of total / page_size, has_prev is page > 1,
\* has_next is page < pages, and returned counts the items at positions
\* (page-1)*page_size .. page*page_size-1; page=2 and page_size=2 on five
\* items give returned 2, pages 3, has_next and has_prev.
C8_PageMode ==
  (q_op = "apply_pagination" /\ {"limit", "offset"} \cap DOMAIN q_args = {})
    => PageResultOk(q_in, q_args, q_res.page, q_res.meta)

\* The scenario itself: the second page of five items holds items 3 and 4.
C8_Witness ==
  /\ q_op = "apply_pagination"
  /\ {"limit", "offset"} \cap DOMAIN q_args = {}
  /\ Scenario(q_in, q_args)
  /\ q_res.page = <<q_in[3], q_in[4]>>

\* Longest page handed to the projection.
MaxProjectLen == 2

\* Items to project: two ids, two names, the price present or missing.
ProjectItems ==
  { (F_id :> Str(id)) @@ (F_name :> Str(nm)) @@ Opt(F_price, pr)
    : id \in {IdStr(1), IdStr(2)}, nm \in {<<"a">>, <<"B">>}, pr \in {None, Num(1000)} }

Bogus == <<"b", "o", "g", "u", "s">>

\* Values of the fields parameter: absent, empty, allowed names with and
\* without blanks and empty pieces, a name no item has, and both kinds mixed.
FieldsRaws ==
  { None, Str(<<>>), Str(F_id), Str(F_id \o <<",">> \o F_name),
    Str(<<" ">> \o F_price \o <<" ", ",", ",">> \o F_id),
    Str(Bogus), Str(Bogus \o <<",">> \o F_id), Str(<<",">>) }

\* The list routes' last step on a page.
ProjectPage ==
  \E raw \in FieldsRaws : Applied("project_page", raw, ProjectAll(q_in, parse_fields_param(raw)))

\* get_item's last step on the item found.
ProjectItem ==
  /\ Len(q_in) = 1
  /\ \E raw \in FieldsRaws :
       Applied("project_item", raw, <<project_fields(q_in[1], parse_fields_param(raw))>>)

NextProject == ProjectPage \/ ProjectItem

\* parse_fields_param and project_fields on every page of ProjectItems up
\* to MaxProjectLen.
SpecProject ==
  /\ InitQuery({data \in SeqsUpTo(ProjectItems, MaxProjectLen) : DistinctIds(data)})
  /\ [][NextProject]_vars

\* The names a fields parameter declares: its comma-separated pieces,
\* blanks stripped, empty pieces dropped.
Declared(raw) == {f \in SetOf(StripAll(SplitComma(raw.s))) : f # <<>>}

\* Record r is record x narrowed to the names in whitelist.
Narrowed(r, x, whitelist) ==
  /\ DOMAIN r \subseteq DOMAIN x \cap whitelist
  /\ \A k \in DOMAIN r : r[k] = x[k]

\* C9: whenever the fields parameter declares at least one name, known or
\* not, every record returned by a list route or by get_item holds only
\* fields of the original record that are among the declared names.
C9_ProjectionWithinWhitelist ==
  (q_op \in {"project_page", "project_item"} /\ Declared(q_args) # {})
    => /\ Len(q_res) = Len(q_in)
       /\ \A i \in 1..Len(q_res) : Narrowed(q_res[i], q_in[i], Declared(q_args))

(***************************************************************************)
(* Properties of the store                                                 *)
(***************************************************************************)

QueryRoutes == {"list", "get", "related"}

\* Thread t is inside create_item with new_item built.
Creating(t) == op[t] = "create" /\ pc[t] \notin {"idle", "ended"} /\ new_item[t] # <<>>

\* Thread t has appended its item and not yet left the with block.
MidInsert(t) ==
  /\ op[t] = "create"
  /\ \/ pc[t] \in {"c_save", "c_replace"}
     \/ pc[t] = "release" /\ status[t] \in {201, 500}

\* Thread t took a step.
Stepped(t) == pc'[t] # pc[t]

\* C1: whatever the interleaving of create_item calls, no two items of
\* ITEMS have the same id.
C1_UniqueIds ==
  \A i, j \in 1..Len(ITEMS) : i # j => ITEMS[i][F_id] # ITEMS[j][F_id]

\* Two threads insert the same id at the same time: one has appended and
\* is saving, the other waits for the lock.
C1_Witness ==
  \E t, u \in Threads :
    /\ t # u
    /\ Creating(t) /\ pc[t] \in {"c_save", "c_replace"}
    /\ Creating(u) /\ pc[u] = "acquire"
    /\ new_item[t][F_id] = new_item[u][F_id]

\* C2: a create_item whose id is already in ITEMS when it is tested ends
\* with 409, and from the test to the response ITEMS and DATA_FILE stay as
\* they were and save_data is not called.
C2_DuplicateRejected ==
  [][\A t \in Threads :
       /\ (Creating(t) /\ pc[t] = "c_check" /\ HasId(ITEMS, new_item[t][F_id]) /\ Stepped(t))
            => /\ pc'[t] = "release" /\ status'[t] = 409
               /\ ITEMS' = ITEMS /\ disk' = disk /\ saves'[t] = 0
       /\ (Creating(t) /\ pc[t] = "release" /\ status[t] = 409 /\ Stepped(t))
            => /\ pc'[t] = "done" /\ status'[t] = 409
               /\ ITEMS' = ITEMS /\ disk' = disk /\ saves'[t] = 0]_vars

\* A create_item was answered 409 for an id that is in ITEMS.
C2_Witness ==
  \E t \in Threads :
    /\ Creating(t) /\ pc[t] = "done" /\ status[t] = 409
    /\ HasId(ITEMS, new_item[t][F_id])

\* C3: when save_data fails, the create_item that called it is answered
\* with a failure and, as it leaves the with block, ITEMS does not hold
\* its item.
C3_FailedPersistLeavesNoItem ==
  \A t \in Threads :
    (Creating(t) /\ pc[t] = "release" /\ status[t] = 500)
      => /\ Response(t).status # 201
         /\ ~HasId(ITEMS, new_item[t][F_id])

\* The items of ITEMS committed so far: all but the one a thread has
\* appended and not yet released.
Committed == Len(ITEMS) - Cardinality({c \in Threads : MidInsert(c)})

Prefix(k) == SubSeq(ITEMS, 1, k)

\* What thread t read under the lock is what it would read from ITEMS as
\* it stood at one instant between two inserts.
ReadAtOneInstant(t) ==
  \E k \in 0..Committed :
    CASE op[t] = "list" -> snap[t] = Prefix(k)
      [] op[t] = "get"  -> current[t] = Lookup(Prefix(k), arg[t]["item_id"])
      [] OTHER          ->
           /\ current[t] = Lookup(Prefix(k), arg[t]["item_id"])
           /\ current[t].found
                => snap[t] = SameCategory(Prefix(k), current[t].item, arg[t]["item_id"])

\* Every query that has left the lock read ITEMS at one instant.
QueriesReadAtOneInstant ==
  \A t \in Threads :
    (op[t] \in QueryRoutes /\ pc[t] = "done" /\ status[t] # 400) => ReadAtOneInstant(t)

\* No step of a query changes ITEMS.
QueryStepKeepsItems ==
  \A t \in Threads :
    (Stepped(t) /\ (op[t] \in QueryRoutes \/ op'[t] \in QueryRoutes)) => ITEMS' = ITEMS

\* C4: each query works on ITEMS as it stood at one instant, never on a
\* half-applied insert, and no step of a query changes ITEMS.
C4_ConsistentSnapshots == []QueriesReadAtOneInstant /\ [][QueryStepKeepsItems]_vars

\* A list route holds its copy while an insert made after the copy is
\* under way.
C4_Witness ==
  \E t, c \in Threads :
    /\ op[t] = "list" /\ pc[t] = "done" /\ status[t] = 200
    /\ MidInsert(c)
    /\ Len(snap[t]) >= 1
    /\ Len(snap[t]) < Len(ITEMS)

\* Thread t is inside save_data.
Persisting(t) == op[t] = "create" /\ pc[t] \in {"c_save", "c_replace"}

\* C10: save_data runs once per successful create_item, with the lock
\* held and the new item already in ITEMS; queries and rejected creates do
\* not run it; two runs never overlap, and after a run DATA_FILE holds
\* ITEMS.
C10_PersistOncePerInsert ==
  /\ \A t \in Threads :
       /\ (op[t] = "create" /\ pc[t] \in {"release", "done"} /\ status[t] = 201)
            => saves[t] = 1
       /\ Persisting(t)
            => lock = t /\ ITEMS # <<>> /\ ITEMS[Len(ITEMS)] = new_item[t]
       /\ (op[t] \in QueryRoutes \/ status[t] \in {400, 409}) => saves[t] = 0
       /\ (op[t] = "create" /\ pc[t] = "release" /\ status[t] = 201)
            => disk = File(ITEMS)
  /\ \A t, u \in Threads : (Persisting(t) /\ Persisting(u)) => t = u

\* One insert is inside save_data while another waits for the lock.
C10_Witness ==
  \E t, u \in Threads :
    /\ pc[t] = "c_replace"
    /\ Creating(u) /\ pc[u] = "acquire"
    /\ new_item[t][F_id] # new_item[u][F_id]

====
